---------------------------- MODULE Spec2Model ----------------------------
(***************************************************************************)
(* Model of read0130.py: the two detectors (detect_corner_markers,         *)
(* detect_bubbles) and the Streamlit session flow around them.             *)
(*                                                                         *)
(* A contour found by cv2.findContours is represented by the measurements  *)
(* the code takes of it:                                                   *)
(*   area2  : 2 * cv2.contourArea (contourArea is a multiple of 0.5)       *)
(*   peri   : cv2.arcLength, in whole pixels                               *)
(*   x10,y10,r10 : cv2.minEnclosingCircle centre and radius, in tenths     *)
(*   bx,by,bw,bh : axis-aligned bounding box                               *)
(*   approx : the vertices cv2.approxPolyDP returns                        *)
(*   circle : true radius of the filled circle that was drawn (0 = other)  *)
(* A RegionImage is [h, w, contours]: the buffer's shape and the contours  *)
(* the preprocessing pipeline finds in it.                                 *)
(***************************************************************************)
EXTENDS Integers, Sequences, FiniteSets, Bags, TLC

VARIABLES
    \* st.session_state
    img_file, original_image, resized_image, scale_factor, zones,
    cropping_mode, temp_box, recognition_results, result_image,
    \* widget / script-run state
    uploaded_file, ran, error,
    \* detector calls made directly on a region buffer
    region, bubbles_out, markers_out, repeated

uiVars == <<img_file, original_image, resized_image, scale_factor, zones,
            cropping_mode, temp_box, recognition_results, result_image,
            uploaded_file, ran, error>>
detVars == <<region, bubbles_out, markers_out, repeated>>
vars == <<img_file, original_image, resized_image, scale_factor, zones,
          cropping_mode, temp_box, recognition_results, result_image,
          uploaded_file, ran, error, region, bubbles_out, markers_out, repeated>>

\* Python's None, and a value that is present
None == <<>>
Some(v) == <<v>>
Get(o) == o[1]

\* ------------------------------------------------------------------ bounds
MaxContours == 3
MaxSpecks == 1
MaxFiles == 2

\* ----------------------------------------------------------- conversions
\* int() of a non-negative float held in tenths: truncation
IntOf10(v10) == v10 \div 10

\* img_crop_bgr.size of an (h, w, 3) buffer
Size(img) == img.h * img.w * 3

\* ------------------------------------------------------ detector pipeline
\* cv2.cvtColor .. cv2.findContours: raises on an empty buffer, otherwise
\* yields the region's contours in discovery order
FindContours(img) ==
    IF Size(img) = 0 THEN [err |-> TRUE, contours |-> <<>>]
    ELSE [err |-> FALSE, contours |-> img.contours]

\* what a detector call leaves behind: an exception or a returned list,
\* together with the input buffer as it is after the call
Raise(img) == [err |-> TRUE, val |-> <<>>, img |-> img]
Return(val, img) == [err |-> FALSE, val |-> val, img |-> img]

\* ------------------------------------------------- detect_corner_markers
MarkerAreaTooSmall(cnt) == cnt.area2 < 2 * 100

IsQuad_ge(approx) == Len(approx) >= 4
IsQuad(approx) == Len(approx) = 4

\* approx.reshape(4, 2).tolist()
Reshape42(approx) == [i \in 1..4 |-> approx[i]]

RECURSIVE MarkerLoop(_, _, _)
MarkerLoop(contours, i, detected_squares) ==
    IF i > Len(contours) THEN detected_squares
    ELSE LET cnt == contours[i] IN
         IF MarkerAreaTooSmall(cnt) THEN MarkerLoop(contours, i + 1, detected_squares)
         ELSE IF IsQuad(cnt.approx)
              THEN MarkerLoop(contours, i + 1, Append(detected_squares, Reshape42(cnt.approx)))
              ELSE MarkerLoop(contours, i + 1, detected_squares)

detect_corner_markers_noguard(img) ==
    LET p == FindContours(img) IN
    IF p.err THEN Raise(img)
    ELSE Return(MarkerLoop(p.contours, 1, <<>>), img)
detect_corner_markers(img) ==
    IF Size(img) = 0 THEN Return(<<>>, img)
    ELSE LET p == FindContours(img) IN
         IF p.err THEN Raise(img)
         ELSE Return(MarkerLoop(p.contours, 1, <<>>), img)

\* -------------------------------------------------------- detect_bubbles
\* area < 40 or peri == 0
IsNoise_and(cnt) == cnt.area2 < 2 * 40 /\ cnt.peri = 0
IsNoise(cnt) == cnt.area2 < 2 * 40 \/ cnt.peri = 0

\* circularity = 4*pi*area / (peri*peri), kept as a fraction with
\* pi taken as 355/113; a zero denominator is Python's ZeroDivisionError
CircNum(cnt) == 4 * 355 * cnt.area2
CircDen(cnt) == 2 * 113 * cnt.peri * cnt.peri

\* 0.5 < circularity < 1.5
CircularityOK_any(cnt) == TRUE
CircularityOK(cnt) ==
    /\ CircDen(cnt) < 2 * CircNum(cnt)
    /\ 2 * CircNum(cnt) < 3 * CircDen(cnt)

\* 7 < radius < 35
RadiusOK_40(r10) == 70 < r10 /\ r10 <= 400
RadiusOK_from8(r10) == 80 < r10 /\ r10 < 350
RadiusOK(r10) == 70 < r10 /\ r10 < 350

\* [int(x), int(y), int(radius)]
BubbleRecord(cnt) == <<IntOf10(cnt.x10), IntOf10(cnt.y10), IntOf10(cnt.r10)>>

RECURSIVE BubbleLoop(_, _, _)
BubbleLoop(contours, i, detected_circles) ==
    IF i > Len(contours) THEN [err |-> FALSE, val |-> detected_circles]
    ELSE LET cnt == contours[i] IN
         IF IsNoise(cnt) THEN BubbleLoop(contours, i + 1, detected_circles)
         ELSE IF CircDen(cnt) = 0 THEN [err |-> TRUE, val |-> <<>>]
         ELSE IF CircularityOK(cnt) /\ RadiusOK(cnt.r10)
              THEN BubbleLoop(contours, i + 1, Append(detected_circles, BubbleRecord(cnt)))
              ELSE BubbleLoop(contours, i + 1, detected_circles)

\* c[0] < width / 2 and c[0] >= width / 2 (true division)
InLeft(c, width) == 2 * c[1] < width
InRight_gt(c, width) == 2 * c[1] > width
InRight(c, width) == 2 * c[1] >= width

\* [c for c in detected_circles if c[0] < width / 2]
RECURSIVE left_col(_, _)
left_col(detected_circles, width) ==
    IF detected_circles = <<>> THEN <<>>
    ELSE IF InLeft(Head(detected_circles), width)
         THEN <<Head(detected_circles)>> \o left_col(Tail(detected_circles), width)
         ELSE left_col(Tail(detected_circles), width)

\* [c for c in detected_circles if c[0] >= width / 2]
RECURSIVE right_col(_, _)
right_col(detected_circles, width) ==
    IF detected_circles = <<>> THEN <<>>
    ELSE IF InRight(Head(detected_circles), width)
         THEN <<Head(detected_circles)>> \o right_col(Tail(detected_circles), width)
         ELSE right_col(Tail(detected_circles), width)

\* list.sort(key=lambda c: c[1]): stable, ascending in y
RECURSIVE InsertByY(_, _)
InsertByY(sorted, c) ==
    IF sorted = <<>> THEN <<c>>
    ELSE IF c[2] < sorted[Len(sorted)][2]
         THEN Append(InsertByY(SubSeq(sorted, 1, Len(sorted) - 1), c), sorted[Len(sorted)])
         ELSE Append(sorted, c)

RECURSIVE SortByYFrom(_, _)
SortByYFrom(s, acc) ==
    IF s = <<>> THEN acc ELSE SortByYFrom(Tail(s), InsertByY(acc, Head(s)))

SortByY_none(s) == s
SortByY(s) == SortByYFrom(s, <<>>)

\* partition by the midpoint, sort each column, concatenate
Arrange(detected_circles, width) ==
    SortByY(left_col(detected_circles, width)) \o SortByY(right_col(detected_circles, width))

detect_bubbles_inplace(img) ==
    IF Size(img) = 0 THEN Return(<<>>, img)
    ELSE LET p == FindContours(img) IN
         IF p.err THEN Raise(img)
         ELSE LET f == BubbleLoop(p.contours, 1, <<>>) IN
              IF f.err THEN Raise(img)
              ELSE Return(Arrange(f.val, img.w), [img EXCEPT !.contours = <<>>])
detect_bubbles(img) ==
    IF Size(img) = 0 THEN Return(<<>>, img)
    ELSE LET p == FindContours(img) IN
         IF p.err THEN Raise(img)
         ELSE LET f == BubbleLoop(p.contours, 1, <<>>) IN
              IF f.err THEN Raise(img)
              ELSE Return(Arrange(f.val, img.w), img)


\* ------------------------------------------------------- contours found
\* a filled circle of true radius r drawn at (x10/10, y10/10); e10 is the
\* amount by which minEnclosingCircle's radius differs from r, in tenths
Circle(x10, y10, r, e10) ==
    LET cx == x10 \div 10
        cy == y10 \div 10
        d == (7 * r) \div 10
    IN [area2 |-> (2 * 355 * r * r) \div 113,
        peri |-> (2 * 355 * r) \div 113 + 2,
        x10 |-> x10, y10 |-> y10, r10 |-> 10 * r + e10,
        bx |-> cx - r, by |-> cy - r, bw |-> 2 * r + 1, bh |-> 2 * r + 1,
        approx |-> << <<cx + r, cy>>, <<cx + d, cy + d>>, <<cx, cy + r>>, <<cx - d, cy + d>>,
                      <<cx - r, cy>>, <<cx - d, cy - d>>, <<cx, cy - r>>, <<cx + d, cy - d>> >>,
        circle |-> r]

\* a filled axis-aligned square of the given side centred at (cx, cy)
Square(cx, cy, side) ==
    LET hs == side \div 2
    IN [area2 |-> 2 * side * side, peri |-> 4 * side,
        x10 |-> 10 * cx, y10 |-> 10 * cy, r10 |-> (side * 707) \div 100,
        bx |-> cx - hs, by |-> cy - hs, bw |-> side + 1, bh |-> side + 1,
        approx |-> << <<cx - hs, cy - hs>>, <<cx - hs, cy + hs>>,
                      <<cx + hs, cy + hs>>, <<cx + hs, cy - hs>> >>,
        circle |-> 0]

\* any other blob, by its measurements
Blob(area2, peri, cx, cy, r10, bw, bh, approx) ==
    [area2 |-> area2, peri |-> peri, x10 |-> 10 * cx, y10 |-> 10 * cy, r10 |-> r10,
     bx |-> cx - bw \div 2, by |-> cy - bh \div 2, bw |-> bw, bh |-> bh,
     approx |-> approx, circle |-> 0]

c1 == Circle(500, 450, 7, 3)       \* left column, enclosing radius 7.3
cT == Circle(250, 1300, 12, 0)     \* left column
c4 == Circle(1005, 2000, 20, 2)    \* centre x = 100.5: on the midpoint
c5 == Circle(1500, 1300, 38, 2)    \* right column, radius 38
\* ellipse with half-axes 30 x 15: circularity 0.84, bounding box 61 x 31
e1 == Blob(2827, 145, 150, 200, 302, 61, 31,
           << <<120, 200>>, <<135, 213>>, <<165, 213>>, <<180, 200>>, <<165, 187>>, <<135, 187>> >>)
s1 == Square(160, 60, 30)          \* registration square
s2 == Square(20, 20, 9)            \* square of area 81
\* text stroke: large perimeter for its area
t1 == Blob(240, 160, 100, 120, 300, 60, 5, << <<70, 118>>, <<130, 118>>, <<100, 122>> >>)
\* ink specks
n2 == Blob(0, 0, 180, 10, 0, 1, 1, << <<180, 10>> >>)
n3 == Blob(79, 31, 120, 20, 76, 16, 4, << <<112, 20>>, <<128, 20>> >>)

Universe == {c1, cT, c4, c5, e1, s1, s2, t1}
Specks == {n2, n3}

Widths == {200, 201}

Range(s) == {s[i] : i \in 1..Len(s)}

\* the sequences of n distinct contours: findContours never reports one twice
RECURSIVE DistinctSeqs(_)
DistinctSeqs(n) ==
    IF n = 0 THEN {<<>>}
    ELSE UNION {{Append(s, c) : c \in Universe \ Range(s)} : s \in DistinctSeqs(n - 1)}

Regions ==
    {[h |-> 240, w |-> w, contours |-> cs] :
        w \in Widths, cs \in UNION {DistinctSeqs(n) : n \in 0..MaxContours}}
    \cup {[h |-> 240, w |-> 0, contours |-> <<>>],
          [h |-> 0, w |-> 200, contours |-> <<>>],
          [h |-> 0, w |-> 0, contours |-> <<>>]}

NoCall == [err |-> FALSE, val |-> <<>>, called |-> FALSE]
CallResult(r) == [err |-> r.err, val |-> r.val, called |-> TRUE]

NumSpecks(cs) == Cardinality({i \in 1..Len(cs) : cs[i] \in Specks})

InsertAt(cs, i, c) == SubSeq(cs, 1, i - 1) \o <<c>> \o SubSeq(cs, i, Len(cs))


\* ---------------------------------------------------- detector call steps
CallDetectBubbles ==
    /\ repeated' = bubbles_out.called
    /\ LET r == detect_bubbles(region) IN
         /\ bubbles_out' = CallResult(r)
         /\ region' = r.img
    /\ UNCHANGED <<markers_out, uiVars>>

CallDetectCornerMarkers ==
    /\ repeated' = markers_out.called
    /\ LET r == detect_corner_markers(region) IN
         /\ markers_out' = CallResult(r)
         /\ region' = r.img
    /\ UNCHANGED <<bubbles_out, uiVars>>

\* one more ink speck on the sheet: one more contour, anywhere in discovery order
AddSpeck ==
    /\ Size(region) > 0
    /\ NumSpecks(region.contours) < MaxSpecks
    /\ \E c \in Specks, i \in 1..(Len(region.contours) + 1) :
         region' = [region EXCEPT !.contours = InsertAt(region.contours, i, c)]
    /\ bubbles_out' = NoCall
    /\ markers_out' = NoCall
    /\ repeated' = FALSE
    /\ UNCHANGED uiVars


\* ------------------------------------------------------------ the sheets
Files == 1..MaxFiles
ZoneNames == {"A1", "A2", "A3", "A4"}

\* Image.open(uploaded_file): the scan behind an uploaded file
OpenImage(f) == [id |-> f, w |-> 850 * f, h |-> 1100 * f]

\* the contours the pipeline finds on a sheet, in source-image coordinates
ImageContours(f) ==
    IF f % 2 = 1 THEN <<s1, cT, n3, e1, c4, c1>> ELSE <<c5, t1, cT, s1, s2>>

\* the boxes st_cropper can return (return_type='box')
Boxes ==
    {[left |-> 0, top |-> 0, width |-> 200, height |-> 240],
     [left |-> 40, top |-> 0, width |-> 0, height |-> 240],
     [left |-> 0, top |-> 30, width |-> 200, height |-> 0]}

\* ----------------------------------------------------------- the session
Sess ==
    [img_file |-> img_file, original_image |-> original_image,
     resized_image |-> resized_image, scale_factor |-> scale_factor,
     zones |-> zones, cropping_mode |-> cropping_mode, temp_box |-> temp_box,
     recognition_results |-> recognition_results, result_image |-> result_image,
     ran |-> ran, error |-> error]

Commit(s) ==
    /\ img_file' = s.img_file
    /\ original_image' = s.original_image
    /\ resized_image' = s.resized_image
    /\ scale_factor' = s.scale_factor
    /\ zones' = s.zones
    /\ cropping_mode' = s.cropping_mode
    /\ temp_box' = s.temp_box
    /\ recognition_results' = s.recognition_results
    /\ result_image' = s.result_image
    /\ ran' = s.ran
    /\ error' = s.error

\* int(v * scale), scale held as the fraction orig_w / display_width
Scaled(v, scale) == (v * scale[1]) \div scale[2]

\* a file that is not the current one: load it and reset the session
UploadHandler(s, uf) ==
    IF uf # None /\ s.img_file # uf
    THEN LET img == OpenImage(Get(uf)) IN
         [s EXCEPT !.img_file = uf,
                   !.original_image = Some(img),
                   !.resized_image = Some([id |-> img.id, w |-> 850, h |-> (img.h * 850) \div img.w]),
                   !.scale_factor = <<img.w, 850>>,
                   !.zones = [k \in DOMAIN s.zones |-> None],
                   !.recognition_results = None,
                   !.result_image = None,
                   !.ran = "upload"]
    ELSE s

\* a script run starts with no exception shown and no handler run yet
ScriptTop(s, uf) == UploadHandler([s EXCEPT !.error = None, !.ran = "none"], uf)

\* the OK button of the active zone, followed by the rerun st.rerun() asks for
ConfirmHandler(s, zone, uf) ==
    ScriptTop([s EXCEPT !.zones[zone] = s.temp_box, !.cropping_mode = None], uf)

\* disabled=not all(st.session_state.zones.values())
RunDisabled_any(s) == ~ (\E z \in DOMAIN s.zones : s.zones[z] # None)
RunDisabled(s) == ~ (\A z \in DOMAIN s.zones : s.zones[z] # None)

\* full_cv[ry:ry+rh, rx:rx+rw] (a slice is clamped to the array)
Min(a, b) == IF a < b THEN a ELSE b

Translate(cnt, dx, dy) ==
    [cnt EXCEPT !.x10 = @ - 10 * dx, !.y10 = @ - 10 * dy, !.bx = @ - dx, !.by = @ - dy,
                !.approx = [i \in 1..Len(cnt.approx) |-> <<cnt.approx[i][1] - dx, cnt.approx[i][2] - dy>>]]

RECURSIVE Inside(_, _, _, _, _)
Inside(cs, x0, y0, x1, y1) ==
    IF cs = <<>> THEN <<>>
    ELSE LET c == Head(cs) IN
         IF c.bx >= x0 /\ c.by >= y0 /\ c.bx + c.bw <= x1 /\ c.by + c.bh <= y1
         THEN <<Translate(c, x0, y0)>> \o Inside(Tail(cs), x0, y0, x1, y1)
         ELSE Inside(Tail(cs), x0, y0, x1, y1)

Crop(img, rx, ry, rw, rh) ==
    LET x0 == Min(rx, img.w)
        x1 == Min(rx + rw, img.w)
        y0 == Min(ry, img.h)
        y1 == Min(ry + rh, img.h)
    IN [h |-> y1 - y0, w |-> x1 - x0,
        contours |-> Inside(ImageContours(img.id), x0, y0, x1, y1)]

\* the crop of one zone
ZoneCrop(s, z) ==
    LET box == Get(s.zones[z])
        scale == s.scale_factor
    IN Crop(Get(s.original_image), Scaled(box.left, scale), Scaled(box.top, scale),
            Scaled(box.width, scale), Scaled(box.height, scale))

\* one pass of the loop over A1..A3; reading a field of a missing box raises
ZoneResult(s, z) ==
    IF s.zones[z] = None THEN [err |-> TRUE, val |-> <<>>, off |-> <<0, 0>>]
    ELSE LET box == Get(s.zones[z])
             r == IF z = "A1" THEN detect_corner_markers(ZoneCrop(s, z))
                  ELSE detect_bubbles(ZoneCrop(s, z))
         IN [err |-> r.err, val |-> r.val,
             off |-> <<Scaled(box.left, s.scale_factor), Scaled(box.top, s.scale_factor)>>]

\* what is drawn on a copy of the original image
draw_results_on_image(image, results, region_offsets) ==
    [id |-> image.id,
     A1 |-> [i \in 1..Len(results.A1) |->
               [k \in 1..4 |-> <<results.A1[i][k][1] + region_offsets.A1[1],
                                 results.A1[i][k][2] + region_offsets.A1[2]>>]],
     A2 |-> [i \in 1..Len(results.A2) |->
               LET c == results.A2[i] o == region_offsets.A2 IN
               <<c[1] + o[1] - c[3], c[2] + o[2] - c[3], c[1] + o[1] + c[3], c[2] + o[2] + c[3]>>],
     A3 |-> [i \in 1..Len(results.A3) |->
               LET c == results.A3[i] o == region_offsets.A3 IN
               <<c[1] + o[1] - c[3], c[2] + o[2] - c[3], c[1] + o[1] + c[3], c[2] + o[2] + c[3], i>>]]

\* the body of the recognition button
RecognitionBody(s) ==
    IF s.original_image = None THEN [s EXCEPT !.error = Some("AttributeError"), !.ran = "recognize"]
    ELSE LET A1r == ZoneResult(s, "A1")
             A2r == ZoneResult(s, "A2")
             A3r == ZoneResult(s, "A3")
         IN IF A1r.err \/ A2r.err \/ A3r.err
            THEN [s EXCEPT !.error = Some("Exception"), !.ran = "recognize"]
            ELSE LET results == [A1 |-> A1r.val, A2 |-> A2r.val, A3 |-> A3r.val]
                     offsets == [A1 |-> A1r.off, A2 |-> A2r.off, A3 |-> A3r.off]
                 IN [s EXCEPT !.result_image = Some(draw_results_on_image(Get(s.original_image), results, offsets)),
                              !.recognition_results = Some(results),
                              !.ran = "recognize"]

\* the cropper is shown, and temp_box set, only in cropping
\* mode; nothing of the right column runs after an exception
CropperShown(s) == s.error = None /\ s.resized_image # None /\ s.cropping_mode # None

RightColumn(s, box_data) ==
    IF CropperShown(s) THEN [s EXCEPT !.temp_box = Some(box_data)] ELSE s

\* the rest of a script run: st_cropper returns whichever box the operator
\* has drawn
Finish(s) ==
    IF CropperShown(s) THEN \E b \in Boxes : Commit(RightColumn(s, b))
    ELSE Commit(s)

\* ------------------------------------------- script runs, one per event
Upload(f) ==
    /\ Some(f) # img_file
    /\ uploaded_file' = Some(f)
    /\ Finish(ScriptTop(Sess, Some(f)))
    /\ UNCHANGED detVars

ClearUpload ==
    /\ uploaded_file # None
    /\ uploaded_file' = None
    /\ Finish(ScriptTop(Sess, None))
    /\ UNCHANGED detVars

\* the button's on_click callback runs before the script
MarkZone(z) ==
    /\ Finish([ScriptTop([Sess EXCEPT !.cropping_mode = Some(z)], uploaded_file)
                  EXCEPT !.ran = "mark"])
    /\ UNCHANGED <<uploaded_file, detVars>>

\* the OK button exists only for the active zone
ConfirmZone(z) ==
    /\ cropping_mode = Some(z)
    /\ Finish([ConfirmHandler(ScriptTop(Sess, uploaded_file), z, uploaded_file)
                  EXCEPT !.ran = "confirm"])
    /\ UNCHANGED <<uploaded_file, detVars>>

RunRecognition ==
    /\ ~ RunDisabled(Sess)
    /\ Finish(RecognitionBody(ScriptTop(Sess, uploaded_file)))
    /\ UNCHANGED <<uploaded_file, detVars>>

\* dragging the box (realtime_update=True) reruns the script
MoveCropBox(b) ==
    /\ CropperShown(Sess)
    /\ Some(b) # temp_box
    /\ Commit(RightColumn([ScriptTop(Sess, uploaded_file) EXCEPT !.ran = "crop"], b))
    /\ UNCHANGED <<uploaded_file, detVars>>

\* ------------------------------------------------------- specifications
\* st.session_state as first set up
InitSession ==
    /\ img_file = None
    /\ original_image = None
    /\ resized_image = None
    /\ scale_factor = <<1, 1>>
    /\ zones = [z \in ZoneNames |-> None]
    /\ cropping_mode = None
    /\ temp_box = None
    /\ recognition_results = None
    /\ result_image = None
    /\ uploaded_file = None
    /\ ran = "none"
    /\ error = None

Init ==
    /\ InitSession
    /\ region = [h |-> 0, w |-> 0, contours |-> <<>>]
    /\ bubbles_out = NoCall
    /\ markers_out = NoCall
    /\ repeated = FALSE

Next ==
    \/ \E f \in Files : Upload(f)
    \/ ClearUpload
    \/ \E z \in ZoneNames : MarkZone(z)
    \/ \E z \in ZoneNames : ConfirmZone(z)
    \/ RunRecognition
    \/ \E b \in Boxes : MoveCropBox(b)

Spec == Init /\ [][Next]_vars

InitDet ==
    /\ InitSession
    /\ region \in Regions
    /\ bubbles_out = NoCall
    /\ markers_out = NoCall
    /\ repeated = FALSE

NextDet ==
    \/ CallDetectBubbles
    \/ CallDetectCornerMarkers

SpecDet == InitDet /\ [][NextDet]_vars

NextNoise ==
    \/ AddSpeck
    \/ CallDetectBubbles

SpecNoise == InitDet /\ [][NextNoise]_vars


\* ------------------------------------------------------------ properties
BagOf(s) == [e \in Range(s) |-> Cardinality({i \in 1..Len(s) : s[i] = e})]

BubblesReturned == bubbles_out.called /\ ~ bubbles_out.err
MarkersReturned == markers_out.called /\ ~ markers_out.err

\* C1: the sequence detect_bubbles returns is grouped left half then right
\* half: some split index has every record before it at center_x < width/2
\* and every record from it on at center_x >= width/2, and center_y never
\* decreases from one record to the next inside a group.
C1_LeftThenRightByY ==
    BubblesReturned =>
        LET v == bubbles_out.val
            w == region.w
        IN \E k \in 0..Len(v) :
             /\ \A i \in 1..k : 2 * v[i][1] < w
             /\ \A i \in (k + 1)..Len(v) : 2 * v[i][1] >= w
             /\ \A i \in 1..(Len(v) - 1) : i # k => v[i][2] <= v[i + 1][2]

\* a call whose accepted candidates were found out of reading order and
\* fall in both halves
C1_Witness ==
    /\ BubblesReturned
    /\ Len(bubbles_out.val) = 3
    /\ \E i, j \in 1..3 : 2 * bubbles_out.val[i][1] < region.w /\ 2 * bubbles_out.val[j][1] >= region.w
    /\ bubbles_out.val # BubbleLoop(region.contours, 1, <<>>).val

\* C9: the sequence detect_bubbles returns is a permutation of the accepted
\* candidates: each accepted record appears exactly as often as it was
\* accepted, so nothing is lost or duplicated by the left/right partition.
C9_PermutationOfAccepted ==
    BubblesReturned =>
        LET accepted == BubbleLoop(region.contours, 1, <<>>).val
        IN /\ Len(bubbles_out.val) = Len(accepted)
           /\ BagOf(bubbles_out.val) = BagOf(accepted)

\* an accepted candidate sits exactly on the midpoint of an even width
C9_Witness ==
    /\ BubblesReturned
    /\ Len(bubbles_out.val) >= 2
    /\ \E i \in 1..Len(bubbles_out.val) : 2 * bubbles_out.val[i][1] = region.w


\* the positions of the contours that are large quadrilaterals
QuadPositions(cs) ==
    {i \in 1..Len(cs) : cs[i].area2 >= 200 /\ Len(cs[i].approx) = 4}

OnlyDisjointCircles(cs) ==
    /\ Len(cs) >= 1
    /\ \A i \in 1..Len(cs) : cs[i].circle > 0
    /\ \A i, j \in 1..Len(cs) :
         i < j => LET dx == cs[i].x10 - cs[j].x10
                      dy == cs[i].y10 - cs[j].y10
                      rr == 10 * (cs[i].circle + cs[j].circle)
                  IN dx * dx + dy * dy > rr * rr

PassesAreaAndCircularity(cnt) ==
    /\ cnt.area2 >= 80
    /\ cnt.peri # 0
    /\ 2 * 113 * cnt.peri * cnt.peri < 2 * 4 * 355 * cnt.area2
    /\ 2 * 4 * 355 * cnt.area2 < 3 * 2 * 113 * cnt.peri * cnt.peri

Abs(n) == IF n < 0 THEN -n ELSE n

\* C3 as stated: N non-overlapping filled circles of radius within [7,40],
\* each passing the area and circularity filters, give exactly N records,
\* each radius within 2 px of the true one.
C3_Original ==
    (/\ BubblesReturned
     /\ OnlyDisjointCircles(region.contours)
     /\ \A i \in 1..Len(region.contours) :
          /\ region.contours[i].circle >= 7
          /\ region.contours[i].circle <= 40
          /\ PassesAreaAndCircularity(region.contours[i]))
    => /\ Len(bubbles_out.val) = Len(region.contours)
       /\ \A k \in 1..Len(bubbles_out.val) :
            \E i \in 1..Len(region.contours) :
               /\ bubbles_out.val[k][1] = region.contours[i].x10 \div 10
               /\ bubbles_out.val[k][2] = region.contours[i].y10 \div 10
               /\ Abs(bubbles_out.val[k][3] - region.contours[i].circle) <= 2

\* C3 amended: N non-overlapping filled circles whose minimal enclosing
\* circle has a radius strictly between 7 and 35, each passing the area and
\* circularity filters, give exactly N records; each returned radius is the
\* enclosing radius truncated to an integer, hence within 2 px of the true
\* radius when the enclosing radius is within 1 px of it.
C3_CirclesWithinCodeRange ==
    (/\ BubblesReturned
     /\ OnlyDisjointCircles(region.contours)
     /\ \A i \in 1..Len(region.contours) :
          /\ region.contours[i].r10 > 70
          /\ region.contours[i].r10 < 350
          /\ PassesAreaAndCircularity(region.contours[i]))
    => /\ Len(bubbles_out.val) = Len(region.contours)
       /\ \A k \in 1..Len(bubbles_out.val) :
            \E i \in 1..Len(region.contours) :
               LET cnt == region.contours[i]
                   r == bubbles_out.val[k][3]
               IN /\ bubbles_out.val[k][1] = cnt.x10 \div 10
                  /\ bubbles_out.val[k][2] = cnt.y10 \div 10
                  /\ 10 * r <= cnt.r10
                  /\ cnt.r10 < 10 * r + 10
                  /\ (Abs(cnt.r10 - 10 * cnt.circle) <= 10 => Abs(r - cnt.circle) <= 2)

\* three disjoint circles, the smallest of enclosing radius 7.3, all returned
C3_Witness ==
    /\ BubblesReturned
    /\ OnlyDisjointCircles(region.contours)
    /\ Len(region.contours) = 3
    /\ \A i \in 1..3 : region.contours[i].r10 > 70 /\ region.contours[i].r10 < 350
    /\ \E i \in 1..3 : region.contours[i] = c1
    /\ Len(bubbles_out.val) = 3

\* C6 as stated: every returned radius is strictly greater than 7 and
\* strictly less than 35.
C6_Original ==
    BubblesReturned =>
        \A k \in 1..Len(bubbles_out.val) :
            7 < bubbles_out.val[k][3] /\ bubbles_out.val[k][3] < 35

\* C6 amended: every returned radius is an integer at least 7 and strictly
\* less than 35; 7 is returned for an enclosing radius between 7 and 8.
C6_RadiusFrom7Below35 ==
    BubblesReturned =>
        \A k \in 1..Len(bubbles_out.val) :
            7 <= bubbles_out.val[k][3] /\ bubbles_out.val[k][3] < 35

\* a call that returned radius 7 and a larger one, with a radius-38 circle
\* in the region
C6_Witness ==
    /\ BubblesReturned
    /\ \E k \in 1..Len(bubbles_out.val) : bubbles_out.val[k][3] = 7
    /\ \E k \in 1..Len(bubbles_out.val) : bubbles_out.val[k][3] > 20
    /\ \E i \in 1..Len(region.contours) : region.contours[i].r10 >= 350

InOutput(cnt) == \E k \in 1..Len(bubbles_out.val) : bubbles_out.val[k] = BubbleRecord(cnt)

AspectNearOne(cnt) == 7 * cnt.bh <= 10 * cnt.bw /\ 10 * cnt.bw <= 13 * cnt.bh

\* C7 as stated: a contour is in the output only if it passes the area,
\* circularity, aspect-ratio (0.7 to 1.3) and radius filters.
C7_Original ==
    BubblesReturned =>
        \A i \in 1..Len(region.contours) :
            InOutput(region.contours[i]) =>
                /\ PassesAreaAndCircularity(region.contours[i])
                /\ AspectNearOne(region.contours[i])
                /\ region.contours[i].r10 > 70 /\ region.contours[i].r10 < 350

\* C7 amended: a contour is in the output exactly if it passes the three
\* filters the code applies: area at least 40 with a non-zero perimeter,
\* circularity strictly between 0.5 and 1.5, enclosing radius strictly
\* between 7 and 35. The bounding-box aspect ratio is not tested.
C7_ThreeFilters ==
    BubblesReturned =>
        \A i \in 1..Len(region.contours) :
            InOutput(region.contours[i]) <=>
                /\ PassesAreaAndCircularity(region.contours[i])
                /\ region.contours[i].r10 > 70 /\ region.contours[i].r10 < 350

\* a region with a stroke of low circularity, an oversized circle and an
\* elongated ellipse: only the ellipse is returned
C7_Witness ==
    /\ BubblesReturned
    /\ Range(region.contours) = {t1, c5, e1}
    /\ bubbles_out.val = <<BubbleRecord(e1)>>

RECURSIVE StripSpecks(_)
StripSpecks(cs) ==
    IF cs = <<>> THEN <<>>
    ELSE IF Head(cs) \in Specks THEN StripSpecks(Tail(cs))
         ELSE <<Head(cs)>> \o StripSpecks(Tail(cs))

\* C8: contours of area below 40 or of zero perimeter are dropped before the
\* circularity is computed, so no call fails on a division by zero, and with
\* such contours added the call returns what it returns without them.
C8_SpecksChangeNothing ==
    bubbles_out.called =>
        /\ ~ bubbles_out.err
        /\ bubbles_out.val = detect_bubbles([region EXCEPT !.contours = StripSpecks(@)]).val
        /\ \A i \in 1..Len(region.contours) :
             (region.contours[i].area2 < 80 \/ region.contours[i].peri = 0)
                => ~ InOutput(region.contours[i])

\* a speck was added among bubbles and the detector was called
C8_Witness ==
    /\ BubblesReturned
    /\ \E i \in 1..Len(region.contours) : region.contours[i] \in Specks
    /\ Len(bubbles_out.val) >= 2

\* a contour of zero perimeter was added and the detector was called
C8_WitnessZeroPerimeter ==
    /\ BubblesReturned
    /\ \E i \in 1..Len(region.contours) : region.contours[i].peri = 0
    /\ Len(bubbles_out.val) >= 1

BubbleZones == {"A1", "A2", "A3"}
AllConfirmed(zs) == \A z \in ZoneNames : zs[z] # None

\* C2: a zero-area region makes either detector return an empty sequence
\* and raise nothing, also when it is the crop of a confirmed zone box of
\* zero width or height that the recognition step passes to the detector.
C2_ZeroAreaGivesEmpty ==
    ran = "recognize" =>
        /\ error = None
        /\ recognition_results # None
        /\ \A z \in BubbleZones :
             zones[z] # None /\ Size(ZoneCrop(Sess, z)) = 0
                => Get(recognition_results)[z] = <<>>

\* recognition ran with a zero-width box for the marker zone, a zero-height
\* box for a bubble zone and a box with bubbles in it for the other
C2_Witness ==
    /\ ran = "recognize"
    /\ AllConfirmed(zones)
    /\ Get(zones["A1"]).width = 0
    /\ Get(zones["A2"]).height = 0
    /\ recognition_results # None
    /\ Len(Get(recognition_results)["A3"]) >= 2

\* C10: the recognition step only runs with all four zones holding a
\* confirmed box, so it raises nothing for a missing box and its results are
\* those of the current image; a newly uploaded file unsets every zone and
\* clears recognition_results and result_image.
C10_RecognitionNeedsAllZones ==
    [][/\ (ran' = "recognize" =>
             /\ AllConfirmed(zones)
             /\ zones' = zones
             /\ error' = None
             /\ recognition_results' # None
             /\ result_image' # None
             /\ Some(Get(result_image').id) = img_file')
       /\ (img_file' # img_file =>
             /\ \A z \in ZoneNames : zones'[z] = None
             /\ recognition_results' = None
             /\ result_image' = None)]_vars

\* recognition ran on the image of a second upload
C10_Witness ==
    /\ ran = "recognize"
    /\ img_file = Some(2)
    /\ recognition_results # None
    /\ Get(result_image).id = 2

=============================================================================
